---- MODULE Spec2Model ----
(***************************************************************************)
(* Task graph of the project-management tool: the tasks table of the       *)
(* server (db.ts), the REST handlers in front of it (index.ts), the client *)
(* handlers that issue mutations (App.tsx, TaskDetailDrawer.tsx,           *)
(* TaskList.tsx) and the pure functions the views compute on a snapshot    *)
(* (getDependencyOrder, isDescendant, isAncestor, dependsOnTransitive).    *)
(*                                                                         *)
(* Ids are UUIDs in the program; the model uses 1, 2, 3, ... in creation   *)
(* order.  NoId models null (no parent), NoDate models a null start date.  *)
(* Dates are day numbers: ISO date strings of one format compare as the    *)
(* day numbers do, and '' (the key of a null date) is below all of them.   *)
(* A task is [id, parentId, dependencyIds, startDate, duration]; title,    *)
(* details, tags and canvas fields take no part in any graph operation.    *)
(* The model holds one project: the client lists, and offers as targets,   *)
(* only the tasks of the open project.                                     *)
(***************************************************************************)
EXTENDS Integers, Sequences, FiniteSets, TLC

VARIABLES
    tasks,   \* rows of the tasks table in created_at order = the snapshot the client holds after its re-fetch
    nextId,  \* the next fresh id (gen_random_uuid never repeats)
    last,    \* the last mutation the client issued: [op, id, arg]
    out      \* result of the last pure-function evaluation on the snapshot

vars == <<tasks, nextId, last, out>>

\* ---------------------------------------------------------------- bounds
MaxTasks  == 3   \* tasks ever created in a behaviour of Spec
SnapTasks == 3   \* length of the enumerated snapshots of SpecFn
MaxEdges  == 3   \* dependency edges in an enumerated snapshot
MaxDate   == 1   \* distinct start dates in an enumerated snapshot
MaxStart  == 2   \* start dates in a snapshot of SpecBounds
MaxDuration == 2  \* durations in a snapshot of SpecBounds and in a request of SpecSched
SchedTasks == 2   \* tasks ever created in a behaviour of SpecSched
StatusDays == 6   \* days on the calendar of SpecStatus
RaceTasks == 3   \* tasks ever created in a behaviour of SpecRace
NumClients == 2  \* browsers working on the same project in SpecRace
NumProjects == 2  \* projects of SpecNav
NavTasks == 2    \* tasks ever created in a behaviour of SpecNav
MaxInFlight == 2  \* requests awaiting their response in SpecNav and in SpecServer
SrvTasks == 2    \* rows of the table in SpecServer

NoId   == 0
NoDate == 0

\* Results of the recursive predicates: the two booleans, and "diverges" for
\* a recursion that re-enters a call already on the stack (same arguments,
\* pure function: it never returns; the engine raises RangeError or hangs).
T == "true"
F == "false"
Diverges == "diverges"

\* ------------------------------------------------------- list primitives
\* Array.prototype.includes
includes(s, x) == \E i \in 1..Len(s) : s[i] = x

\* tasks.find((t) => t.id === id) !== undefined
hasTask(ts, id) == \E i \in 1..Len(ts) : ts[i].id = id

\* tasks.find((t) => t.id === id): the first row with that id
findTask(ts, id) == ts[CHOOSE i \in 1..Len(ts) : ts[i].id = id /\ \A j \in 1..(i-1) : ts[j].id # id]

TaskIds(ts) == {ts[i].id : i \in 1..Len(ts)}

\* array_remove(arr, x): every occurrence goes
arrayRemove(s, x) == SelectSeq(s, LAMBDA y : y # x)

Task(id, parentId, deps, startDate, duration) ==
    [id |-> id, parentId |-> parentId, dependencyIds |-> deps,
     startDate |-> startDate, duration |-> duration]

\* --------------------------------------------------- getDependencyOrder
\* (a.startDate ?? '').localeCompare(b.startDate ?? ''): the sort key
startKey(t) == IF t.startDate = NoDate THEN 0 ELSE t.startDate

\* insert t behind every element whose key is not greater (stable)
RECURSIVE insertSorted(_, _)
insertSorted(t, s) ==
    IF s = <<>> THEN <<t>>
    ELSE IF startKey(Head(s)) <= startKey(t)
         THEN <<Head(s)>> \o insertSorted(t, Tail(s))
         ELSE <<t>> \o s

\* the ready tasks left in list order
sortByStartUnsorted(s) == s

\* ready.sort(...): Array.prototype.sort is stable
RECURSIVE sortByStart(_)
sortByStart(s) ==
    IF s = <<>> THEN <<>>
    ELSE insertSorted(s[Len(s)], sortByStart(SubSeq(s, 1, Len(s) - 1)))

\* new Set(tasks.map((t) => t.id)): insertion order, first occurrence kept
RECURSIVE newSet(_, _)
newSet(ts, acc) ==
    IF ts = <<>> THEN acc
    ELSE newSet(Tail(ts), IF includes(acc, Head(ts).id) THEN acc ELSE Append(acc, Head(ts).id))

\* readyTasks with the dependency test left out
readyTasksIgnoringDeps(ts, remaining) ==
    SelectSeq(ts, LAMBDA t : includes(remaining, t.id))

\* readyTasks that waits for a dependency that is not in the list
readyTasksDanglingBlocks(ts, remaining) ==
    SelectSeq(ts, LAMBDA t :
        /\ includes(remaining, t.id)
        /\ \A k \in 1..Len(t.dependencyIds) :
            ~includes(remaining, t.dependencyIds[k]) /\ hasTask(ts, t.dependencyIds[k]))

readyTasks(ts, remaining) ==
    SelectSeq(ts, LAMBDA t :
        /\ includes(remaining, t.id)
        /\ \A k \in 1..Len(t.dependencyIds) : ~includes(remaining, t.dependencyIds[k]))

RECURSIVE idsOf(_)
idsOf(ts) == IF ts = <<>> THEN <<>> ELSE <<Head(ts).id>> \o idsOf(Tail(ts))

\* orderLoop without the push of the remaining ids when nothing is ready
RECURSIVE orderLoopNoFallback(_, _, _)
orderLoopNoFallback(ts, remaining, order) ==
    IF Len(remaining) = 0 THEN order
    ELSE LET ready == readyTasks(ts, remaining) IN
         IF Len(ready) = 0
         THEN order
         ELSE LET sorted == idsOf(sortByStart(ready)) IN
              orderLoopNoFallback(ts,
                        SelectSeq(remaining, LAMBDA x : ~includes(sorted, x)),
                        order \o sorted)

\* orderLoop that sorts the remaining tasks of the fallback by start date
RECURSIVE orderLoopFallbackSorted(_, _, _)
orderLoopFallbackSorted(ts, remaining, order) ==
    IF Len(remaining) = 0 THEN order
    ELSE LET ready == readyTasks(ts, remaining) IN
         IF Len(ready) = 0
         THEN order \o idsOf(sortByStart(SelectSeq(ts, LAMBDA t : includes(remaining, t.id))))
         ELSE LET sorted == idsOf(sortByStart(ready)) IN
              orderLoopFallbackSorted(ts,
                        SelectSeq(remaining, LAMBDA x : ~includes(sorted, x)),
                        order \o sorted)

\* the while loop; remaining is the Set in insertion order
RECURSIVE orderLoop(_, _, _)
orderLoop(ts, remaining, order) ==
    IF Len(remaining) = 0 THEN order
    ELSE LET ready == readyTasks(ts, remaining) IN
         IF Len(ready) = 0
         THEN order \o remaining
         ELSE LET sorted == idsOf(sortByStart(ready)) IN
              orderLoop(ts,
                        SelectSeq(remaining, LAMBDA x : ~includes(sorted, x)),
                        order \o sorted)

getDependencyOrder(ts) == orderLoop(ts, newSet(ts, <<>>), <<>>)

\* ------------------------------------------------------------ predicates
\* stack = the first arguments of the calls already on the call stack
RECURSIVE dependsOnTransitiveRec(_, _, _, _)
RECURSIVE someDep(_, _, _, _, _)

\* dependsOnTransitive that looks at the direct dependencies only
dependsOnTransitiveRecDirect(ts, taskId, targetId, stack) ==
    IF ~hasTask(ts, taskId) THEN F
    ELSE IF includes(findTask(ts, taskId).dependencyIds, targetId) THEN T ELSE F

dependsOnTransitiveRec(ts, taskId, targetId, stack) ==
    IF taskId \in stack THEN Diverges
    ELSE IF ~hasTask(ts, taskId) THEN F
    ELSE LET t == findTask(ts, taskId) IN
         IF includes(t.dependencyIds, targetId) THEN T
         ELSE someDep(ts, t.dependencyIds, 1, targetId, stack \cup {taskId})

\* some() that asks the first dependency only
someDepFirstOnly(ts, deps, k, targetId, stack) ==
    IF k > Len(deps) \/ k > 1 THEN F
    ELSE dependsOnTransitiveRec(ts, deps[k], targetId, stack)

\* t.dependencyIds.some((d) => dependsOnTransitive(tasks, d, targetId))
someDep(ts, deps, k, targetId, stack) ==
    IF k > Len(deps) THEN F
    ELSE LET r == dependsOnTransitiveRec(ts, deps[k], targetId, stack) IN
         IF r = F THEN someDep(ts, deps, k + 1, targetId, stack) ELSE r

dependsOnTransitive(ts, taskId, targetId) ==
    dependsOnTransitiveRec(ts, taskId, targetId, {})

RECURSIVE isDescendantRec(_, _, _, _)
RECURSIVE forChildren(_, _, _, _, _)

isDescendantRec(ts, ancestorId, nodeId, stack) ==
    IF ancestorId \in stack THEN Diverges
    ELSE forChildren(ts, SelectSeq(ts, LAMBDA t : t.parentId = ancestorId), 1,
                     nodeId, stack \cup {ancestorId})

\* the loop over the children without the recursive call
RECURSIVE forChildrenDirect(_, _, _, _, _)
forChildrenDirect(ts, children, k, nodeId, stack) ==
    IF k > Len(children) THEN F
    ELSE IF children[k].id = nodeId THEN T
    ELSE forChildrenDirect(ts, children, k + 1, nodeId, stack)

\* for (const c of children) { ... }
forChildren(ts, children, k, nodeId, stack) ==
    IF k > Len(children) THEN F
    ELSE IF children[k].id = nodeId THEN T
    ELSE LET r == isDescendantRec(ts, children[k].id, nodeId, stack) IN
         IF r = F THEN forChildren(ts, children, k + 1, nodeId, stack) ELSE r

isDescendant(ts, ancestorId, nodeId) == isDescendantRec(ts, ancestorId, nodeId, {})

\* isAncestor that looks at the parent of descendantId only
isAncestorRecParentOnly(ts, ancestorId, descendantId, stack) ==
    IF ~hasTask(ts, descendantId) THEN F
    ELSE LET t == findTask(ts, descendantId) IN
         IF t.parentId = NoId THEN F
         ELSE IF t.parentId = ancestorId THEN T
         ELSE F

RECURSIVE isAncestorRec(_, _, _, _)
isAncestorRec(ts, ancestorId, descendantId, stack) ==
    IF descendantId \in stack THEN Diverges
    ELSE IF ~hasTask(ts, descendantId) THEN F
    ELSE LET t == findTask(ts, descendantId) IN
         IF t.parentId = NoId THEN F
         ELSE IF t.parentId = ancestorId THEN T
         ELSE isAncestorRec(ts, ancestorId, t.parentId, stack \cup {descendantId})

isAncestor(ts, ancestorId, descendantId) == isAncestorRec(ts, ancestorId, descendantId, {})

\* !b for a result of a recursive predicate
negate(r) == IF r = T THEN F ELSE IF r = F THEN T ELSE r

\* the filter without the transitive test (as canDependOn of the task tree)
canAddDependencyNoCycleCheck(ts, taskId, tId) ==
    IF tId = taskId THEN F
    ELSE IF includes(findTask(ts, taskId).dependencyIds, tId) THEN F
    ELSE T

\* TaskDetailDrawer: the filter of canAddAsDependency, evaluated for the
\* drawer's task and the candidate t (&& is short-circuit)
canAddDependency(ts, taskId, tId) ==
    IF tId = taskId THEN F
    ELSE IF includes(findTask(ts, taskId).dependencyIds, tId) THEN F
    ELSE negate(dependsOnTransitive(ts, tId, taskId))

\* t is listed in the "Add dependency" modal of the drawer of taskId
canAddAsDependency(ts, taskId, tId) ==
    /\ hasTask(ts, taskId)
    /\ hasTask(ts, tId)
    /\ canAddDependency(ts, taskId, tId) = T

\* the filter without the ancestor test (as canAddAsChild of the task tree)
canAddChildNoAncestorCheck(ts, taskId, tId) ==
    IF tId = taskId THEN F
    ELSE IF findTask(ts, tId).parentId = taskId THEN F
    ELSE T

\* TaskDetailDrawer: the filter of canAddAsChild, evaluated for the drawer's
\* task and the candidate t
canAddChild(ts, taskId, tId) ==
    IF tId = taskId THEN F
    ELSE IF findTask(ts, tId).parentId = taskId THEN F
    ELSE negate(isAncestor(ts, tId, taskId))

\* t is listed in the "Add existing task as sub-task" modal of the drawer
canAddAsChild(ts, taskId, tId) ==
    /\ hasTask(ts, taskId)
    /\ hasTask(ts, tId)
    /\ canAddChild(ts, taskId, tId) = T

\* the drawer computes both filters over all tasks on every render; a filter
\* that does not return leaves no drawer to act in
drawerRenders(ts, taskId) ==
    \A i \in 1..Len(ts) :
        /\ canAddChild(ts, taskId, ts[i].id) # Diverges
        /\ canAddDependency(ts, taskId, ts[i].id) # Diverges

\* the views walk the rows down from parentId null (flatRows, buildTreeData):
\* a task has a row, and can be acted on, when its parent chain ends at null
RECURSIVE hasRowRec(_, _, _)
hasRowRec(ts, id, seen) ==
    IF id \in seen \/ ~hasTask(ts, id) THEN FALSE
    ELSE IF findTask(ts, id).parentId = NoId THEN TRUE
    ELSE hasRowRec(ts, findTask(ts, id).parentId, seen \cup {id})

hasRow(ts, id) == hasRowRec(ts, id, {})

\* ------------------------------------------ getEffectiveTaskBounds
\* Dates are day numbers (ISO date strings of one format compare as their
\* days do; parseISO, addDays and differenceInDays on local midnights are
\* day arithmetic).  A result is the returned object, or no return at all
\* when the recursion re-enters a task that is already on the call stack.
Bounds(startDate, duration) ==
    [returns |-> TRUE, startDate |-> startDate, duration |-> duration]

NoReturn == [returns |-> FALSE, startDate |-> NoDate, duration |-> 0]

\* Math.max
Max(a, b) == IF a >= b THEN a ELSE b

RECURSIVE getEffectiveTaskBoundsRec(_, _, _)
RECURSIVE boundsLoop(_, _, _, _, _, _)

\* the loop that stops after the first child
RECURSIVE boundsLoopFirstChild(_, _, _, _, _, _)
boundsLoopFirstChild(ts, children, k, minStart, maxEndExclusive, stack) ==
    IF k > Len(children) \/ k > 1
    THEN [returns |-> TRUE, minStart |-> minStart, maxEndExclusive |-> maxEndExclusive]
    ELSE LET b == getEffectiveTaskBoundsRec(ts, children[k].id, stack) IN
         IF ~b.returns
         THEN [returns |-> FALSE, minStart |-> minStart, maxEndExclusive |-> maxEndExclusive]
         ELSE IF b.startDate # NoDate
         THEN boundsLoopFirstChild(ts, children, k + 1, b.startDate,
                                   b.startDate + b.duration, stack)
         ELSE boundsLoopFirstChild(ts, children, k + 1, minStart, maxEndExclusive, stack)

\* for (const c of children) { ... }: minStart and maxEndExclusive after
\* the children from the k-th on
boundsLoop(ts, children, k, minStart, maxEndExclusive, stack) ==
    IF k > Len(children)
    THEN [returns |-> TRUE, minStart |-> minStart, maxEndExclusive |-> maxEndExclusive]
    ELSE LET b == getEffectiveTaskBoundsRec(ts, children[k].id, stack) IN
         IF ~b.returns
         THEN [returns |-> FALSE, minStart |-> minStart, maxEndExclusive |-> maxEndExclusive]
         ELSE IF b.startDate # NoDate
         THEN LET endExclusive == b.startDate + b.duration IN
              boundsLoop(ts, children, k + 1,
                         IF minStart = NoDate \/ b.startDate < minStart
                         THEN b.startDate ELSE minStart,
                         IF maxEndExclusive = NoDate \/ endExclusive > maxEndExclusive
                         THEN endExclusive ELSE maxEndExclusive,
                         stack)
         ELSE boundsLoop(ts, children, k + 1, minStart, maxEndExclusive, stack)

\* getEffectiveTaskBounds without the fallback to the task's own fields
getEffectiveTaskBoundsRecNoFallback(ts, taskId, stack) ==
    IF taskId \in stack THEN NoReturn
    ELSE IF ~hasTask(ts, taskId) THEN Bounds(NoDate, 0)
    ELSE LET task == findTask(ts, taskId)
             children == SelectSeq(ts, LAMBDA t : t.parentId = taskId) IN
         IF Len(children) = 0 THEN Bounds(task.startDate, task.duration)
         ELSE LET acc == boundsLoop(ts, children, 1, NoDate, NoDate, stack \cup {taskId}) IN
              IF ~acc.returns THEN NoReturn
              ELSE Bounds(acc.minStart, Max(1, acc.maxEndExclusive - acc.minStart))

getEffectiveTaskBoundsRec(ts, taskId, stack) ==
    IF taskId \in stack THEN NoReturn
    ELSE IF ~hasTask(ts, taskId) THEN Bounds(NoDate, 0)
    ELSE LET task == findTask(ts, taskId)
             children == SelectSeq(ts, LAMBDA t : t.parentId = taskId) IN
         IF Len(children) = 0 THEN Bounds(task.startDate, task.duration)
         ELSE LET acc == boundsLoop(ts, children, 1, NoDate, NoDate, stack \cup {taskId}) IN
              IF ~acc.returns THEN NoReturn
              ELSE IF acc.minStart = NoDate \/ acc.maxEndExclusive = NoDate
              THEN Bounds(task.startDate, task.duration)
              ELSE Bounds(acc.minStart, Max(1, acc.maxEndExclusive - acc.minStart))

\* the lookup that finds no task
getEffectiveTaskBoundsNotFound(ts, taskId) == Bounds(NoDate, 0)

getEffectiveTaskBounds(ts, taskId) == getEffectiveTaskBoundsRec(ts, taskId, {})

\* ------------------------------------- legacy task tree (older TaskList)
\* depOrder.indexOf(id), with depOrder.length for an id that is not there
indexOf(order, id) ==
    IF includes(order, id)
    THEN CHOOSE i \in 1..Len(order) : order[i] = id /\ \A j \in 1..(i-1) : order[j] # id
    ELSE Len(order) + 1

RECURSIVE insertByIndex(_, _, _)
insertByIndex(t, s, order) ==
    IF s = <<>> THEN <<t>>
    ELSE IF indexOf(order, Head(s).id) <= indexOf(order, t.id)
         THEN <<Head(s)>> \o insertByIndex(t, Tail(s), order)
         ELSE <<t>> \o s

RECURSIVE sortByIndex(_, _)
sortByIndex(s, order) ==
    IF s = <<>> THEN <<>>
    ELSE insertByIndex(s[Len(s)], sortByIndex(SubSeq(s, 1, Len(s) - 1), order), order)

\* getChildren: the rows of a parent, sorted by their place in depOrder
getChildren(ts, parentId, depOrder) ==
    sortByIndex(SelectSeq(ts, LAMBDA t : t.parentId = parentId), depOrder)

\* isDescendant of the task tree: the same walk over getChildren(tasks, id)
RECURSIVE isDescendantTreeRec(_, _, _, _)
RECURSIVE forChildrenTree(_, _, _, _, _)

isDescendantTreeRec(ts, ancestorId, nodeId, stack) ==
    IF ancestorId \in stack THEN Diverges
    ELSE forChildrenTree(ts, getChildren(ts, ancestorId, getDependencyOrder(ts)), 1,
                         nodeId, stack \cup {ancestorId})

forChildrenTree(ts, children, k, nodeId, stack) ==
    IF k > Len(children) THEN F
    ELSE IF children[k].id = nodeId THEN T
    ELSE LET r == isDescendantTreeRec(ts, children[k].id, nodeId, stack) IN
         IF r = F THEN forChildrenTree(ts, children, k + 1, nodeId, stack) ELSE r

isDescendantTree(ts, ancestorId, nodeId) == isDescendantTreeRec(ts, ancestorId, nodeId, {})

\* ------------------------------------------------- persistence (db.ts)
\* rows removed by DELETE ... WHERE id = $1 OR parent_id = $1 together with
\* parent_id REFERENCES tasks(id) ON DELETE CASCADE: S and every row whose
\* parent row is removed
\* no ON DELETE CASCADE: only the rows of the DELETE itself go
cascadeNone(ts, S) == S

RECURSIVE cascade(_, _)
cascade(ts, S) ==
    LET more == {ts[i].id : i \in {j \in 1..Len(ts) : ts[j].parentId \in S}} IN
    IF more \subseteq S THEN S ELSE cascade(ts, S \cup more)

deletedRows(ts, id) ==
    cascade(ts, {ts[i].id : i \in {j \in 1..Len(ts) : ts[j].id = id \/ ts[j].parentId = id}})

\* deleteTask: the DELETE, then array_remove of the id from every other row
deleteTask(ts, id) ==
    LET gone == deletedRows(ts, id)
        kept == SelectSeq(ts, LAMBDA t : t.id \notin gone) IN
    IF gone = {} THEN ts
    ELSE [i \in 1..Len(kept) |->
            [kept[i] EXCEPT !.dependencyIds = arrayRemove(kept[i].dependencyIds, id)]]

\* the table without CHECK (duration >= 1)
rowAllowedNoCheck(ts, t) ==
    t.parentId = NoId \/ hasTask(ts, t.parentId)

\* the constraints of the tasks table: the parent_id foreign key and
\* CHECK (duration >= 1)
rowAllowed(ts, t) ==
    /\ t.parentId = NoId \/ hasTask(ts, t.parentId)
    /\ t.duration >= 1

\* createTaskInProject: INSERT; a row the constraints refuse is not stored
createTaskInProject(ts, id, startDate, duration, parentId, dependencyIds) ==
    LET t == Task(id, parentId, dependencyIds, startDate, duration) IN
    IF rowAllowed(ts, t) THEN Append(ts, t) ELSE ts

\* updateTask: UPDATE tasks SET <the fields present in updates> WHERE id = ...
applyUpdates(t, updates) ==
    [f \in DOMAIN t |-> IF f \in DOMAIN updates THEN updates[f] ELSE t[f]]

updateTask(ts, id, updates) ==
    IF DOMAIN updates = {} \/ ~hasTask(ts, id) THEN ts
    ELSE LET t == applyUpdates(findTask(ts, id), updates) IN
         IF rowAllowed(ts, t)
         THEN [i \in 1..Len(ts) |-> IF ts[i].id = id THEN t ELSE ts[i]]
         ELSE ts

\* addDependency whose UPDATE matches no row
addDependencyUnstored(ts, taskId, dependsOnTaskId) == ts

\* addDependency without NOT ($2 = ANY(dependency_ids)) in its WHERE
addDependencyNoGuard(ts, taskId, dependsOnTaskId) ==
    IF taskId = dependsOnTaskId THEN ts
    ELSE [i \in 1..Len(ts) |->
            IF ts[i].id = taskId
            THEN [ts[i] EXCEPT !.dependencyIds = Append(@, dependsOnTaskId)]
            ELSE ts[i]]

\* addDependency: array_append unless the id is already there
addDependency(ts, taskId, dependsOnTaskId) ==
    IF taskId = dependsOnTaskId THEN ts
    ELSE [i \in 1..Len(ts) |->
            IF ts[i].id = taskId /\ ~includes(ts[i].dependencyIds, dependsOnTaskId)
            THEN [ts[i] EXCEPT !.dependencyIds = Append(@, dependsOnTaskId)]
            ELSE ts[i]]

\* removeDependency: array_remove on the row of taskId
removeDependency(ts, taskId, dependsOnTaskId) ==
    [i \in 1..Len(ts) |->
        IF ts[i].id = taskId
        THEN [ts[i] EXCEPT !.dependencyIds = arrayRemove(@, dependsOnTaskId)]
        ELSE ts[i]]

\* a handler that refuses an edge closing a dependency cycle
postDependencyValidated(ts, id, dependsOnTaskId) ==
    IF ~hasTask(ts, id) THEN ts
    ELSE IF includes(findTask(ts, id).dependencyIds, dependsOnTaskId) THEN ts
    ELSE IF dependsOnTransitive(ts, dependsOnTaskId, id) # F THEN ts
    ELSE addDependency(ts, id, dependsOnTaskId)

\* POST /api/tasks/:id/dependencies
postDependency(ts, id, dependsOnTaskId) ==
    IF ~hasTask(ts, id) THEN ts
    ELSE IF includes(findTask(ts, id).dependencyIds, dependsOnTaskId) THEN ts
    ELSE addDependency(ts, id, dependsOnTaskId)

\* ------------------------------------------------- client (current UI)
\* Every handler of App awaits its request and then refreshTasks(), so the
\* snapshot the components hold is the table after the mutation.
NoOut == [fn |-> "none", val |-> <<>>]

Issued(op, id, arg) == last' = [op |-> op, id |-> id, arg |-> arg]

Init ==
    /\ tasks = <<>>
    /\ nextId = 1
    /\ last = [op |-> "none", id |-> NoId, arg |-> NoId]
    /\ out = NoOut

\* App.handleNewTaskSubmit -> handleCreateTask: the New Task modal with its
\* default start date ('' -> null) and duration (1), parent among topLevel
NewTask ==
    /\ nextId <= MaxTasks
    /\ \E p \in {NoId} \cup {tasks[i].id : i \in {j \in 1..Len(tasks) : tasks[j].parentId = NoId}} :
        /\ tasks' = createTaskInProject(tasks, nextId, NoDate, 1, p, <<>>)
        /\ Issued("createTask", nextId, p)
    /\ nextId' = nextId + 1
    /\ UNCHANGED out

\* the drawer of a task is open: the task has a row to select and the
\* drawer renders
drawerOpen(ts, task) == hasRow(ts, task) /\ drawerRenders(ts, task)

\* TaskDetailDrawer.submitAddChild -> App.handleAddChild -> addChildTask
DrawerAddChild ==
    /\ nextId <= MaxTasks
    /\ \E task \in TaskIds(tasks) :
        /\ drawerOpen(tasks, task)
        /\ tasks' = createTaskInProject(tasks, nextId, NoDate, 1, task, <<>>)
        /\ Issued("createTask", nextId, task)
    /\ nextId' = nextId + 1
    /\ UNCHANGED out

\* TaskDetailDrawer "Add existing task as sub-task": a row of canAddAsChild
DrawerAddExistingChild ==
    /\ \E task \in TaskIds(tasks), t \in TaskIds(tasks) :
        /\ drawerOpen(tasks, task)
        /\ canAddAsChild(tasks, task, t)
        /\ tasks' = updateTask(tasks, t, [parentId |-> task])
        /\ Issued("reparent", t, task)
    /\ UNCHANGED <<nextId, out>>

\* TaskDetailDrawer "Add dependency": a row of canAddAsDependency
DrawerAddDependency ==
    /\ \E task \in TaskIds(tasks), t \in TaskIds(tasks) :
        /\ drawerOpen(tasks, task)
        /\ canAddAsDependency(tasks, task, t)
        /\ tasks' = postDependency(tasks, task, t)
        /\ Issued("addDependency", task, t)
    /\ UNCHANGED <<nextId, out>>

\* TaskDetailDrawer.submitCreateAndAddDep -> App.handleCreateTaskAndAddDependency
DrawerCreateAndAddDep ==
    /\ nextId <= MaxTasks
    /\ \E task \in TaskIds(tasks) :
        /\ drawerOpen(tasks, task)
        /\ tasks' = postDependency(
                        createTaskInProject(tasks, nextId, NoDate, 1, NoId, <<>>),
                        task, nextId)
        /\ Issued("createAndAddDependency", task, nextId)
    /\ nextId' = nextId + 1
    /\ UNCHANGED out

\* TaskDetailDrawer: the remove button of a listed dependency (depTasks)
DrawerRemoveDependency ==
    /\ \E task \in TaskIds(tasks), d \in TaskIds(tasks) :
        /\ drawerOpen(tasks, task)
        /\ includes(findTask(tasks, task).dependencyIds, d)
        /\ tasks' = removeDependency(tasks, task, d)
        /\ Issued("removeDependency", task, d)
    /\ UNCHANGED <<nextId, out>>

\* TaskDetailDrawer delete -> App.handleDeleteTask
DrawerDelete ==
    /\ \E task \in TaskIds(tasks) :
        /\ drawerOpen(tasks, task)
        /\ tasks' = deleteTask(tasks, task)
        /\ Issued("deleteTask", task, NoId)
    /\ UNCHANGED <<nextId, out>>

\* TaskList.handleDrop (a row dropped on another row), then "Add as child"
\* in the drop modal: applyDropAsChild
ListDropAsChild ==
    /\ \E dragKey \in TaskIds(tasks), dropKey \in TaskIds(tasks) :
        /\ hasRow(tasks, dragKey) /\ hasRow(tasks, dropKey)
        /\ dragKey # dropKey
        /\ isDescendant(tasks, dragKey, dropKey) = F
        /\ tasks' = updateTask(tasks, dragKey, [parentId |-> dropKey])
        /\ Issued("reparent", dragKey, dropKey)
    /\ UNCHANGED <<nextId, out>>

\* the "Add as dependency" button of the drop modal is enabled
canDropAsDep(ts, dragKey, dropKey) ==
    /\ dependsOnTransitive(ts, dropKey, dragKey) = F
    /\ ~includes(findTask(ts, dragKey).dependencyIds, dropKey)

\* TaskList.handleDrop, then "Add as dependency" in the drop modal:
\* applyDropAsDependency
ListDropAsDependency ==
    /\ \E dragKey \in TaskIds(tasks), dropKey \in TaskIds(tasks) :
        /\ hasRow(tasks, dragKey) /\ hasRow(tasks, dropKey)
        /\ dragKey # dropKey
        /\ canDropAsDep(tasks, dragKey, dropKey)
        /\ dependsOnTransitive(tasks, dropKey, dragKey) = F
        /\ tasks' = postDependency(tasks, dragKey, dropKey)
        /\ Issued("addDependency", dragKey, dropKey)
    /\ UNCHANGED <<nextId, out>>

Next ==
    \/ NewTask
    \/ DrawerAddChild
    \/ DrawerAddExistingChild
    \/ DrawerAddDependency
    \/ DrawerCreateAndAddDep
    \/ DrawerRemoveDependency
    \/ DrawerDelete
    \/ ListDropAsChild
    \/ ListDropAsDependency

Spec == Init /\ [][Next]_vars

\* ------------------------------------------ client (legacy task tree)
\* The older TaskList renders every task as a TaskNodeContent in an antd
\* Tree; its handlers reach the same App handlers.

\* TaskNodeContent: the "Depends on" Select over canDependOn
NodeSelectDependency ==
    /\ \E task \in TaskIds(tasks), id \in TaskIds(tasks) :
        /\ hasRow(tasks, task)
        /\ id # task
        /\ ~includes(findTask(tasks, task).dependencyIds, id)
        /\ tasks' = postDependency(tasks, task, id)
        /\ Issued("addDependency", task, id)
    /\ UNCHANGED <<nextId, out>>

\* TaskNodeContent: the "Add child" Select over canAddAsChild
NodeSelectChild ==
    /\ \E task \in TaskIds(tasks), id \in TaskIds(tasks) :
        /\ hasRow(tasks, task)
        /\ id # task
        /\ findTask(tasks, id).parentId # task
        /\ tasks' = updateTask(tasks, id, [parentId |-> task])
        /\ Issued("reparent", id, task)
    /\ UNCHANGED <<nextId, out>>

\* TaskNodeContent.handleDepDrop: a dragged task dropped on the node of task
NodeDepDrop ==
    /\ \E task \in TaskIds(tasks), draggedId \in TaskIds(tasks) :
        /\ hasRow(tasks, task) /\ hasRow(tasks, draggedId)
        /\ draggedId # task
        /\ ~includes(findTask(tasks, draggedId).dependencyIds, task)
        /\ isDescendantTree(tasks, draggedId, task) = F
        /\ tasks' = postDependency(tasks, draggedId, task)
        /\ Issued("addDependency", draggedId, task)
    /\ UNCHANGED <<nextId, out>>

\* TaskList.handleDrop with dropToGap: the dragged task becomes a sibling of
\* the drop task
TreeDropToGap ==
    /\ \E dragKey \in TaskIds(tasks), dropKey \in TaskIds(tasks) :
        LET newParentId == findTask(tasks, dropKey).parentId IN
        /\ hasRow(tasks, dragKey) /\ hasRow(tasks, dropKey)
        /\ dragKey # newParentId
        /\ newParentId = NoId \/ isDescendantTree(tasks, dragKey, newParentId) = F
        /\ tasks' = updateTask(tasks, dragKey, [parentId |-> newParentId])
        /\ Issued("reparent", dragKey, newParentId)
    /\ UNCHANGED <<nextId, out>>

\* TaskList.handleDrop on a node, then applyDropAsChild of the task tree
TreeDropAsChild ==
    /\ \E dragKey \in TaskIds(tasks), dropKey \in TaskIds(tasks) :
        /\ hasRow(tasks, dragKey) /\ hasRow(tasks, dropKey)
        /\ dragKey # dropKey
        /\ isDescendantTree(tasks, dragKey, dropKey) = F
        /\ tasks' = updateTask(tasks, dragKey, [parentId |-> dropKey])
        /\ Issued("reparent", dragKey, dropKey)
    /\ UNCHANGED <<nextId, out>>

NextLegacy ==
    \/ Next
    \/ NodeSelectDependency
    \/ NodeSelectChild
    \/ NodeDepDrop
    \/ TreeDropToGap
    \/ TreeDropAsChild

SpecLegacy == Init /\ [][NextLegacy]_vars

\* ------------------------------------ schedule (dates and durations)
DAYS_PER_DURATION_UNIT == [day |-> 1, week |-> 7, month |-> 30]
DAYS_PER_UNIT == [day |-> 1, week |-> 7, month |-> 30, quarter |-> 91]
UNIT_WIDTH_PX == [day |-> 24, week |-> 140, month |-> 36, quarter |-> 48]
CLICK_DRAG_THRESHOLD_PX == 5

\* Math.round(n / d) for d > 0: the nearest integer, a half goes upwards
round(n, d) == (2 * n + d) \div (2 * d)

\* Math.abs
abs(x) == IF x < 0 THEN 0 - x ELSE x

\* durationToDays; the amount of the number field is given in tenths
durationToDays(amount10, unit) ==
    Max(1, round(amount10 * DAYS_PER_DURATION_UNIT[unit], 10))

\* amounts of the duration field, in tenths (0, 0.4, 1, 1.5)
Amounts == {0, 4, 10, 15}

\* GanttView.widthPx times the days per unit (a leaf's effective duration
\* is its own): Math.max(unitWidth * 0.5, duration / daysPerUnit * unitWidth)
widthPxScaled(ts, id, timeUnit) ==
    Max((UNIT_WIDTH_PX[timeUnit] * DAYS_PER_UNIT[timeUnit]) \div 2,
        getEffectiveTaskBounds(ts, id).duration * UNIT_WIDTH_PX[timeUnit])

\* handleMouseUp, resizing: the new duration for a bar pulled by offsetPx
resizedDuration(ts, id, timeUnit, offsetPx) ==
    LET half == (UNIT_WIDTH_PX[timeUnit] * DAYS_PER_UNIT[timeUnit]) \div 2
        newWidthScaled == Max(half, widthPxScaled(ts, id, timeUnit)
                                        + offsetPx * DAYS_PER_UNIT[timeUnit]) IN
    Max(1, round(newWidthScaled, UNIT_WIDTH_PX[timeUnit]))

\* handleMouseUp, dragging: Math.round(dragOffsetPx / unitWidth * daysPerUnit)
daysDelta(timeUnit, offsetPx) ==
    round(offsetPx * DAYS_PER_UNIT[timeUnit], UNIT_WIDTH_PX[timeUnit])

\* newStart.toISOString().slice(0, 10): the UTC date of the local midnight,
\* which is the day before in the time zones ahead of UTC
toISODate(day, aheadOfUTC) == IF aheadOfUTC THEN day - 1 ELSE day

hasChildren(ts, tid) == \E i \in 1..Len(ts) : ts[i].parentId = tid

ResizeOffsets == {0 - 2000, 24}
DragOffsets == {0 - 24, 4, 12, 24}

\* POST /api/projects/:projectId/tasks with any duration and start date
ApiCreateTask ==
    /\ nextId <= SchedTasks
    /\ \E d \in (0 - 1)..MaxDuration, s \in {NoDate} \cup 1..MaxStart,
          p \in {NoId} \cup TaskIds(tasks) :
        /\ tasks' = createTaskInProject(tasks, nextId, s, d, p, <<>>)
        /\ last' = [op |-> "createTask", id |-> nextId, arg |-> d]
    /\ nextId' = IF tasks' = tasks THEN nextId ELSE nextId + 1
    /\ UNCHANGED out

\* PATCH /api/tasks/:id with a duration, a duration and a start date, or a
\* start date
ApiUpdateTask ==
    /\ \E id \in TaskIds(tasks) :
        \/ \E d \in (0 - 1)..MaxDuration :
            \E updates \in {[duration |-> d]}
                            \cup {[duration |-> d, startDate |-> s] : s \in 1..MaxStart} :
                /\ tasks' = updateTask(tasks, id, updates)
                /\ last' = [op |-> "updateDuration", id |-> id, arg |-> d]
        \/ \E s \in {NoDate} \cup 1..MaxStart :
            /\ tasks' = updateTask(tasks, id, [startDate |-> s])
            /\ last' = [op |-> "updateStartDate", id |-> id, arg |-> s]
    /\ UNCHANGED <<nextId, out>>

\* App.handleNewTaskSubmit: the New Task modal with a start date, an amount
\* and a unit
NewTaskWithSchedule ==
    /\ nextId <= SchedTasks
    /\ \E amount10 \in Amounts, unit \in DOMAIN DAYS_PER_DURATION_UNIT,
          s \in {NoDate} \cup 1..MaxStart,
          p \in {NoId} \cup {tasks[i].id : i \in {j \in 1..Len(tasks) : tasks[j].parentId = NoId}} :
        LET dur == durationToDays(amount10, unit) IN
        /\ tasks' = createTaskInProject(tasks, nextId, s, dur, p, <<>>)
        /\ last' = [op |-> "newTask", id |-> nextId, arg |-> dur]
    /\ nextId' = IF tasks' = tasks THEN nextId ELSE nextId + 1
    /\ UNCHANGED out

\* GanttView: mouse down on the resize handle of a bar, move, mouse up.
\* The bar grows by a day at most up to MaxDuration days.
GanttResize ==
    /\ \E id \in TaskIds(tasks), timeUnit \in DOMAIN UNIT_WIDTH_PX, offsetPx \in ResizeOffsets :
        LET newDuration == resizedDuration(tasks, id, timeUnit, offsetPx) IN
        /\ hasRow(tasks, id)
        /\ ~hasChildren(tasks, id)
        /\ newDuration <= Max(MaxDuration, findTask(tasks, id).duration)
        /\ tasks' = updateTask(tasks, id, [duration |-> newDuration])
        /\ last' = [op |-> "resize", id |-> id, arg |-> newDuration]
    /\ UNCHANGED <<nextId, out>>

\* GanttView: mouse down on a bar, move beyond the click threshold, mouse
\* up.  A task without a start date is moved from the chart's min date.
GanttDrag ==
    /\ \E id \in TaskIds(tasks), timeUnit \in DOMAIN UNIT_WIDTH_PX, offsetPx \in DragOffsets,
          aheadOfUTC \in BOOLEAN, min \in 1..MaxStart :
        LET task == findTask(tasks, id)
            baseDate == IF task.startDate # NoDate THEN task.startDate ELSE min
            newStartStr == toISODate(baseDate + daysDelta(timeUnit, offsetPx), aheadOfUTC) IN
        /\ hasRow(tasks, id)
        /\ ~hasChildren(tasks, id)
        /\ abs(offsetPx) > CLICK_DRAG_THRESHOLD_PX
        /\ daysDelta(timeUnit, offsetPx) # 0
        /\ newStartStr \in 1..MaxStart
        /\ tasks' = updateTask(tasks, id, [startDate |-> newStartStr])
        /\ last' = [op |-> "drag", id |-> id, arg |-> newStartStr]
    /\ UNCHANGED <<nextId, out>>

NextSched ==
    \/ ApiCreateTask
    \/ ApiUpdateTask
    \/ NewTaskWithSchedule
    \/ GanttResize
    \/ GanttDrag
    \/ DrawerAddDependency

SpecSched == Init /\ [][NextSched]_vars

\* ------------------------------------- pure functions on a snapshot
\* The functions take any task list.  Ids carry no order of their own in the
\* program (they are only compared for equality), so a list with unique ids
\* is taken with the id of its k-th row being k; one further id, Len + 1,
\* stands for an id that no row has (a dangling reference).
RECURSIVE SubsetsUpTo(_, _)
SubsetsUpTo(S, k) ==
    IF k = 0 THEN {{}}
    ELSE LET prev == SubsetsUpTo(S, k - 1) IN
         prev \cup {s \cup {x} : s \in prev, x \in S}

RECURSIVE SortedSeq(_)
SortedSeq(S) ==
    IF S = {} THEN <<>>
    ELSE LET m == CHOOSE x \in S : \A y \in S : x <= y IN <<m>> \o SortedSeq(S \ {m})

StartDates == {NoDate} \cup 1..MaxDate

\* n rows, dependency edges E, start dates d, no parents
DepSnapshot(n, E, d) ==
    [i \in 1..n |-> Task(i, NoId, SortedSeq({e[2] : e \in {x \in E : x[1] = i}}), d[i], 1)]

\* n rows, parent ids p, no dependencies
ParentSnapshot(n, p) ==
    [i \in 1..n |-> Task(i, p[i], <<>>, NoDate, 1)]

\* 1, 2 depends on 1, 3 depends on 1, 4 depends on 2 and 3
DiamondSnapshot ==
    <<Task(1, NoId, <<>>, NoDate, 1), Task(2, NoId, <<1>>, NoDate, 1),
      Task(3, NoId, <<1>>, NoDate, 1), Task(4, NoId, <<2, 3>>, NoDate, 1)>>

\* the ids a query may name on the snapshot ts
QueryIds(ts) == 1..(Len(ts) + 1)

InitFn ==
    /\ \/ \E n \in 0..SnapTasks :
            \E E \in SubsetsUpTo((1..n) \X (1..(n + 1)), MaxEdges) :
                \E d \in [1..n -> StartDates] : tasks = DepSnapshot(n, E, d)
       \/ \E n \in 0..SnapTasks :
            \E p \in [1..n -> 0..(n + 1)] : tasks = ParentSnapshot(n, p)
       \/ tasks = DiamondSnapshot
    /\ nextId = 0
    /\ last = [op |-> "none", id |-> NoId, arg |-> NoId]
    /\ out = NoOut

\* a view evaluates a function once on the snapshot it is rendered with
Evaluated(fn, val) == out' = [fn |-> fn, val |-> val]

\* useMemo(() => getDependencyOrder(tasks), [tasks])
EvalDependencyOrder ==
    /\ out = NoOut
    /\ Evaluated("getDependencyOrder", getDependencyOrder(tasks))
    /\ UNCHANGED <<tasks, nextId, last>>

EvalIsDescendant ==
    /\ out = NoOut
    /\ Evaluated("isDescendant",
                 [a \in QueryIds(tasks), n \in QueryIds(tasks) |-> isDescendant(tasks, a, n)])
    /\ UNCHANGED <<tasks, nextId, last>>

EvalIsDescendantTree ==
    /\ out = NoOut
    /\ Evaluated("isDescendantTree",
                 [a \in QueryIds(tasks), n \in QueryIds(tasks) |-> isDescendantTree(tasks, a, n)])
    /\ UNCHANGED <<tasks, nextId, last>>

EvalDependsOnTransitive ==
    /\ out = NoOut
    /\ Evaluated("dependsOnTransitive",
                 [a \in QueryIds(tasks), b \in QueryIds(tasks) |-> dependsOnTransitive(tasks, a, b)])
    /\ UNCHANGED <<tasks, nextId, last>>

\* the drawer of task x computes canAddAsDependency over the tasks t
EvalCanAddDependency ==
    /\ out = NoOut
    /\ Evaluated("canAddDependency",
                 [x \in TaskIds(tasks), t \in TaskIds(tasks) |-> canAddDependency(tasks, x, t)])
    /\ UNCHANGED <<tasks, nextId, last>>

\* the drawer of a offers b; the click is handled (handleAddDependency, then
\* refreshTasks); the drawer of b and the drop modal for b on a are then
\* computed on the snapshot that came back
EvalAddThenCanAdd ==
    /\ out = NoOut
    /\ Evaluated("addThenCanAdd",
                 [a \in TaskIds(tasks), b \in TaskIds(tasks) |->
                    LET after == postDependency(tasks, a, b) IN
                    [offered |-> canAddAsDependency(tasks, a, b),
                     drawer |-> canAddDependency(after, b, a),
                     list |-> canDropAsDep(after, b, a)]])
    /\ UNCHANGED <<tasks, nextId, last>>

\* a call of getDependencyOrder: the order it returns and the list it
\* leaves behind (filter copies, and sort is applied to the copy)
getDependencyOrderCall(ts) == [order |-> getDependencyOrder(ts), tasks |-> ts]

\* the list is rendered twice with the same tasks array
EvalDependencyOrderTwice ==
    /\ out = NoOut
    /\ LET first == getDependencyOrderCall(tasks)
           second == getDependencyOrderCall(first.tasks) IN
       Evaluated("getDependencyOrderTwice", <<first.order, second.order>>)
    /\ UNCHANGED <<tasks, nextId, last>>

\* ------------------------------------------ getLevels (DependencyView)
\* level.set(id, v) on the Map level, a function on the ids it has
setLevel(level, id, v) ==
    [x \in DOMAIN level \cup {id} |-> IF x = id THEN v ELSE level[x]]

RECURSIVE getLevel(_, _, _, _)
RECURSIVE mapDeps(_, _, _, _, _, _)

\* the map over the dependencies that keeps the level of the last one
RECURSIVE mapDepsLastOnly(_, _, _, _, _, _)
mapDepsLastOnly(ts, deps, k, level, visiting, maxDep) ==
    IF k > Len(deps) THEN [level |-> level, ret |-> maxDep]
    ELSE LET r == getLevel(ts, deps[k], level, visiting) IN
         mapDepsLastOnly(ts, deps, k + 1, r.level, visiting, r.ret)

\* Math.max(...task.dependencyIds.map((depId) => getLevel(depId)), 0): the
\* calls run in list order on the one Map
mapDeps(ts, deps, k, level, visiting, maxDep) ==
    IF k > Len(deps) THEN [level |-> level, ret |-> maxDep]
    ELSE LET r == getLevel(ts, deps[k], level, visiting) IN
         mapDeps(ts, deps, k + 1, r.level, visiting, Max(maxDep, r.ret))

\* getLevel(id): the Map after the call and the value returned
getLevel(ts, id, level, visiting) ==
    IF id \in DOMAIN level THEN [level |-> level, ret |-> level[id]]
    ELSE IF id \in visiting THEN [level |-> setLevel(level, id, 0), ret |-> 0]
    ELSE IF ~hasTask(ts, id) THEN [level |-> setLevel(level, id, 0), ret |-> 0]
    ELSE IF Len(findTask(ts, id).dependencyIds) = 0
    THEN [level |-> setLevel(level, id, 0), ret |-> 0]
    ELSE LET r == mapDeps(ts, findTask(ts, id).dependencyIds, 1, level,
                          visiting \cup {id}, 0) IN
         [level |-> setLevel(r.level, id, r.ret + 1), ret |-> r.ret + 1]

\* tasks.forEach((t) => getLevel(t.id))
RECURSIVE forEachLevel(_, _, _)
forEachLevel(ts, k, level) ==
    IF k > Len(ts) THEN level
    ELSE forEachLevel(ts, k + 1, getLevel(ts, ts[k].id, level, {}).level)

getLevels(ts) == forEachLevel(ts, 1, <<>>)

\* DependencyView: useMemo(() => getLevels(tasks))
EvalLevels ==
    /\ out = NoOut
    /\ Evaluated("getLevels", getLevels(tasks))
    /\ UNCHANGED <<tasks, nextId, last>>

\* the drawer and the list rendered with the same snapshot: isAncestor of
\* TaskDetailDrawer, isDescendant of TaskList and of the older task tree
EvalAncestry ==
    /\ out = NoOut
    /\ Evaluated("ancestry",
                 [a \in QueryIds(tasks), d \in QueryIds(tasks) |->
                    [isAncestor |-> isAncestor(tasks, a, d),
                     isDescendant |-> isDescendant(tasks, a, d),
                     isDescendantTree |-> isDescendantTree(tasks, a, d)]])
    /\ UNCHANGED <<tasks, nextId, last>>

NextFn ==
    \/ EvalAncestry
    \/ EvalDependencyOrder
    \/ EvalIsDescendant
    \/ EvalIsDescendantTree
    \/ EvalDependsOnTransitive
    \/ EvalCanAddDependency
    \/ EvalAddThenCanAdd
    \/ EvalDependencyOrderTwice
    \/ EvalLevels

SpecFn == InitFn /\ [][NextFn]_vars

\* --------------------------- effective bounds on a snapshot (Gantt rows)
\* n rows with parent ids p (0 for none, n + 1 for an id of no row), start
\* dates s and durations u; the table keeps every duration >= 1
BoundsSnapshot(n, p, s, u) ==
    [i \in 1..n |-> Task(i, p[i], <<>>, s[i], u[i])]

InitBounds ==
    /\ \E n \in 0..SnapTasks :
        \E p \in [1..n -> 0..(n + 1)] :
            \E s \in [1..n -> {NoDate} \cup 1..MaxStart] :
                \E u \in [1..n -> 1..MaxDuration] : tasks = BoundsSnapshot(n, p, s, u)
    /\ nextId = 0
    /\ last = [op |-> "none", id |-> NoId, arg |-> NoId]
    /\ out = NoOut

\* GanttView: leftPx, widthPx and flatWithEffective ask for the bounds of
\* the tasks of the snapshot
EvalEffectiveTaskBounds ==
    /\ out = NoOut
    /\ Evaluated("getEffectiveTaskBounds",
                 [t \in QueryIds(tasks) |-> getEffectiveTaskBounds(tasks, t)])
    /\ UNCHANGED <<tasks, nextId, last>>

NextBounds == EvalEffectiveTaskBounds

SpecBounds == InitBounds /\ [][NextBounds]_vars

\* ------------------------------------------- status of a task (TaskList)
\* An instant is counted in half days on the local clock: the local midnight
\* of day d is 2 * d.  The browser's zone is behind UTC, UTC, or ahead of it.
Zones == {"behind", "utc", "ahead"}

\* new Date('YYYY-MM-DD'): midnight UTC of that date
newDate(day, zone) ==
    IF zone = "ahead" THEN 2 * day + 1 ELSE IF zone = "behind" THEN 2 * day - 1 ELSE 2 * day

\* parseISO('YYYY-MM-DD') and startOfDay(new Date()): a local midnight
localMidnight(day) == 2 * day

\* d.toISOString().slice(0, 10): the UTC date of the instant
toISOString10(instant, zone) ==
    (IF zone = "ahead" THEN instant - 1 ELSE IF zone = "behind" THEN instant + 1 ELSE instant)
        \div 2

getTaskStatus(task, today, zone) ==
    IF task.startDate = NoDate THEN "not_started"
    ELSE LET start == newDate(task.startDate, zone)
             end == start + 2 * task.duration IN
         IF end <= localMidnight(today) THEN "done"
         ELSE IF start <= localMidnight(today) THEN "in_progress"
         ELSE "not_started"

getUpdatesForStatus(task, status, today, zone) ==
    IF status = "not_started" THEN [startDate |-> NoDate]
    ELSE IF status = "done"
    THEN [startDate |-> toISOString10(localMidnight(today - (task.duration - 1)), zone)]
    ELSE LET start == IF task.startDate # NoDate THEN localMidnight(task.startDate)
                      ELSE localMidnight(today) IN
         [startDate |-> IF start <= localMidnight(today) THEN toISOString10(start, zone)
                        ELSE toISOString10(localMidnight(today), zone)]

\* one task with any start date on the calendar and any duration
InitStatus ==
    /\ \E s \in {NoDate} \cup 1..StatusDays, u \in 1..MaxDuration :
        tasks = <<Task(1, NoId, <<>>, s, u)>>
    /\ nextId = 0
    /\ last = [op |-> "none", id |-> NoId, arg |-> NoId]
    /\ out = NoOut

\* TaskList.handleStatusChange on a day of the calendar late enough for
\* every date it computes to be on the calendar; the status of the updated
\* task is then displayed
StatusChange ==
    /\ out = NoOut
    /\ \E taskId \in TaskIds(tasks), status \in {"not_started", "in_progress", "done"},
          today \in (MaxDuration + 1)..StatusDays, zone \in Zones :
        LET updates == getUpdatesForStatus(findTask(tasks, taskId), status, today, zone) IN
        /\ tasks' = updateTask(tasks, taskId, updates)
        /\ last' = [op |-> "statusChange", id |-> taskId, arg |-> status]
        /\ Evaluated("getTaskStatus",
                     [status |-> getTaskStatus(findTask(tasks', taskId), today, zone),
                      today |-> today, zone |-> zone])
    /\ UNCHANGED nextId

NextStatus == StatusChange

SpecStatus == InitStatus /\ [][NextStatus]_vars

\* ------------------------------------- several clients on one project
\* Each browser holds the snapshot of its last getTasksByProjectId; the
\* table is shared.  A handler of App awaits its request and then
\* refreshTasks(), which renews the snapshot of that browser only.
\* out.val[c] is the snapshot held by client c.
Clients == 1..NumClients

IssuedBy(c, op, id, arg) == last' = [op |-> op, id |-> id, arg |-> arg, client |-> c]

Held(snap) == [fn |-> "clients", val |-> snap]

InitRace ==
    /\ tasks = <<>>
    /\ nextId = 1
    /\ last = [op |-> "none", id |-> NoId, arg |-> NoId, client |-> 0]
    /\ out = Held([c \in Clients |-> <<>>])

\* the automatic fetch of useEffect([currentProject, refreshTasks]): the
\* project is opened again in browser c
ClientFetch ==
    /\ \E c \in Clients :
        /\ out' = Held([out.val EXCEPT ![c] = tasks])
        /\ IssuedBy(c, "fetch", NoId, NoId)
    /\ UNCHANGED <<tasks, nextId>>

\* App.handleNewTaskSubmit -> handleCreateTask in browser c
ClientNewTask ==
    /\ nextId <= RaceTasks
    /\ \E c \in Clients :
        /\ tasks' = createTaskInProject(tasks, nextId, NoDate, 1, NoId, <<>>)
        /\ out' = Held([out.val EXCEPT ![c] = tasks'])
        /\ IssuedBy(c, "createTask", nextId, NoId)
    /\ nextId' = nextId + 1

\* TaskDetailDrawer "Add dependency" in browser c: a row of
\* canAddAsDependency computed on the snapshot c holds
ClientAddDependency ==
    /\ \E c \in Clients :
        \E task \in TaskIds(out.val[c]), t \in TaskIds(out.val[c]) :
            /\ drawerOpen(out.val[c], task)
            /\ canAddAsDependency(out.val[c], task, t)
            /\ tasks' = postDependency(tasks, task, t)
            /\ out' = Held([out.val EXCEPT ![c] = tasks'])
            /\ IssuedBy(c, "addDependency", task, t)
    /\ UNCHANGED nextId

\* TaskDetailDrawer: the remove button of a dependency listed in browser c
ClientRemoveDependency ==
    /\ \E c \in Clients :
        \E task \in TaskIds(out.val[c]), d \in TaskIds(out.val[c]) :
            /\ drawerOpen(out.val[c], task)
            /\ includes(findTask(out.val[c], task).dependencyIds, d)
            /\ tasks' = removeDependency(tasks, task, d)
            /\ out' = Held([out.val EXCEPT ![c] = tasks'])
            /\ IssuedBy(c, "removeDependency", task, d)
    /\ UNCHANGED nextId

NextRace ==
    \/ ClientFetch
    \/ ClientNewTask
    \/ ClientAddDependency
    \/ ClientRemoveDependency

SpecRace == InitRace /\ [][NextRace]_vars

\* --------------------------------- opening and leaving a project (App)
\* tasks is the list App holds (useState<Task[]>).  out.val holds the rest:
\*   currentProject  the open project, NoProject on the project list page
\*   inFlight        the requests awaiting their response; each one carries
\*                   the project of the closure that issued it
\*   table           the rows of the tasks table, by project_id
Projects == 1..NumProjects

NoProject == 0

AppState(currentProject, inFlight, table) ==
    [fn |-> "app",
     val |-> [currentProject |-> currentProject, inFlight |-> inFlight, table |-> table]]

\* id: the id gen_random_uuid gives the row of a createTask request
Request(req, project, id) == [req |-> req, project |-> project, id |-> id]

\* the request at position i has been answered
answered(inFlight, i) ==
    [k \in 1..(Len(inFlight) - 1) |-> IF k < i THEN inFlight[k] ELSE inFlight[k + 1]]

\* GET /api/projects/:id/tasks
getTasksByProjectId(table, projectId) == table[projectId]

InitNav ==
    /\ tasks = <<>>
    /\ nextId = 1
    /\ last = [op |-> "none", id |-> NoId, arg |-> NoId]
    /\ out = AppState(NoProject, <<>>, [p \in Projects |-> <<>>])

\* ProjectList onEnterProject: setCurrentProject(p); the effect of
\* [currentProject, refreshTasks] then calls refreshTasks()
EnterProject ==
    /\ out.val.currentProject = NoProject
    /\ Len(out.val.inFlight) < MaxInFlight
    /\ \E p \in Projects :
        /\ out' = AppState(p, Append(out.val.inFlight, Request("getTasks", p, NoId)), out.val.table)
        /\ Issued("enterProject", NoId, p)
    /\ UNCHANGED <<tasks, nextId>>

\* Sidebar onNavigateHome: setCurrentProject(null); the effect then does
\* setTasks([])
NavigateHome ==
    /\ out.val.currentProject # NoProject
    /\ tasks' = <<>>
    /\ out' = AppState(NoProject, out.val.inFlight, out.val.table)
    /\ Issued("navigateHome", NoId, NoId)
    /\ UNCHANGED nextId

\* handleNewTaskSubmit -> handleCreateTask up to its first await
SubmitNewTask ==
    /\ out.val.currentProject # NoProject
    /\ Len(out.val.inFlight) < MaxInFlight
    /\ nextId <= NavTasks
    /\ out' = AppState(out.val.currentProject,
                       Append(out.val.inFlight, Request("createTask", out.val.currentProject, nextId)),
                       out.val.table)
    /\ Issued("createTask", nextId, out.val.currentProject)
    /\ nextId' = nextId + 1
    /\ UNCHANGED tasks

\* the response of createTask arrives: the row is stored and the handler
\* goes on with the refreshTasks() of its closure
CreateTaskResponse ==
    /\ \E i \in 1..Len(out.val.inFlight) :
        LET r == out.val.inFlight[i] IN
        /\ r.req = "createTask"
        /\ out' = AppState(out.val.currentProject,
                           Append(answered(out.val.inFlight, i), Request("getTasks", r.project, NoId)),
                           [out.val.table EXCEPT ![r.project] =
                                createTaskInProject(@, r.id, NoDate, 1, NoId, <<>>)])
        /\ Issued("createTaskResponse", r.id, r.project)
    /\ UNCHANGED <<tasks, nextId>>

\* the response of getTasksByProjectId arrives: setTasks(data)
TasksResponse ==
    /\ \E i \in 1..Len(out.val.inFlight) :
        LET r == out.val.inFlight[i] IN
        /\ r.req = "getTasks"
        /\ tasks' = getTasksByProjectId(out.val.table, r.project)
        /\ out' = AppState(out.val.currentProject, answered(out.val.inFlight, i), out.val.table)
        /\ Issued("tasksResponse", NoId, r.project)
    /\ UNCHANGED nextId

NextNav ==
    \/ EnterProject
    \/ NavigateHome
    \/ SubmitNewTask
    \/ CreateTaskResponse
    \/ TasksResponse

SpecNav == InitNav /\ [][NextNav]_vars

\* ------------------------- the dependency endpoints under concurrency
\* Each await of a handler is a point where another request may be served.
\* POST reads the task (getTaskById), answers at once when the task is
\* missing or already lists the id, and otherwise goes on to the UPDATE of
\* addDependency, which is one SQL statement.  out.val holds the POST
\* requests between their read and their UPDATE.
Pending(reqs) == [fn |-> "server", val |-> reqs]

\* the value addDependency returns: true for the task's own id, else
\* whether the UPDATE matched a row
addDependencyReturns(ts, taskId, dependsOnTaskId) ==
    \/ taskId = dependsOnTaskId
    \/ hasTask(ts, taskId) /\ ~includes(findTask(ts, taskId).dependencyIds, dependsOnTaskId)

InitServer ==
    /\ \E n \in 1..SrvTasks :
        \E E \in SUBSET {e \in (1..n) \X (1..(n + 1)) : e[1] # e[2]} :
            tasks = DepSnapshot(n, E, [i \in 1..n |-> NoDate])
    /\ nextId = 0
    /\ last = [op |-> "none", id |-> NoId, arg |-> NoId]
    /\ out = Pending(<<>>)

\* POST /api/tasks/:id/dependencies up to db.addDependency
PostDependencyRead ==
    /\ Len(out.val) < MaxInFlight
    /\ \E id \in QueryIds(tasks), dependsOnTaskId \in QueryIds(tasks) :
        IF ~hasTask(tasks, id)
        THEN Issued("postDependency: 404", id, dependsOnTaskId) /\ UNCHANGED out
        ELSE IF includes(findTask(tasks, id).dependencyIds, dependsOnTaskId)
        THEN Issued("postDependency: 200, already listed", id, dependsOnTaskId) /\ UNCHANGED out
        ELSE /\ out' = Pending(Append(out.val, [id |-> id, dependsOnTaskId |-> dependsOnTaskId]))
             /\ Issued("postDependency: getTaskById", id, dependsOnTaskId)
    /\ UNCHANGED <<tasks, nextId>>

\* POST /api/tasks/:id/dependencies from db.addDependency on
PostDependencyUpdate ==
    /\ \E i \in 1..Len(out.val) :
        LET r == out.val[i] IN
        /\ tasks' = addDependency(tasks, r.id, r.dependsOnTaskId)
        /\ out' = Pending(answered(out.val, i))
        /\ IF addDependencyReturns(tasks, r.id, r.dependsOnTaskId)
           THEN Issued("postDependency: 200", r.id, r.dependsOnTaskId)
           ELSE Issued("postDependency: 404 after addDependency", r.id, r.dependsOnTaskId)
    /\ UNCHANGED nextId

\* DELETE /api/tasks/:id/dependencies/:depId
DeleteDependency ==
    /\ \E id \in QueryIds(tasks), depId \in QueryIds(tasks) :
        /\ tasks' = removeDependency(tasks, id, depId)
        /\ Issued("deleteDependency", id, depId)
    /\ UNCHANGED <<nextId, out>>

NextServer ==
    \/ PostDependencyRead
    \/ PostDependencyUpdate
    \/ DeleteDependency

SpecServer == InitServer /\ [][NextServer]_vars

\* ------------------------------------------------ reference relations
\* The relations are stated on their own, as sets of pairs, and not through
\* the program's traversals.
\* dependency edges: <<t, d>> when d is in the dependencyIds of the row t
DepEdgeSet(ts) ==
    UNION {{<<ts[i].id, ts[i].dependencyIds[k]>> : k \in 1..Len(ts[i].dependencyIds)} :
            i \in 1..Len(ts)}

\* parent-to-child steps: <<p, c>> when the row c has parentId p
ChildEdgeSet(ts) ==
    {<<ts[i].parentId, ts[i].id>> : i \in {j \in 1..Len(ts) : ts[j].parentId # NoId}}

\* ids reachable from the set S by one or more steps of E
RECURSIVE ReachFrom(_, _, _)
ReachFrom(E, frontier, acc) ==
    LET next == {e[2] : e \in {d \in E : d[1] \in frontier}} IN
    IF next \subseteq acc THEN acc ELSE ReachFrom(E, next \ acc, acc \cup next)

Reach(E, a) == ReachFrom(E, {a}, {})

Acyclic(E) == \A e \in E : e[1] \notin Reach(E, e[1])

DepAcyclic(ts) == Acyclic(DepEdgeSet(ts))
ParentAcyclic(ts) == Acyclic(ChildEdgeSet(ts))

\* ------------------------------ rows of the timeline and Gantt views
\* tasks.filter((t) => t.parentId === parentId).sort(by startDate)
siblingsOf(ts, parentId) ==
    sortByStart(SelectSeq(ts, LAMBDA t : t.parentId = parentId))

Row(parent, children) == [parent |-> parent.id, children |-> idsOf(children)]

RECURSIVE buildRows(_, _, _)
RECURSIVE buildRowsOfChildren(_, _, _)
RECURSIVE buildRowsOfSiblings(_, _, _)

\* for (const child of directChildren): the row of the child, then
\* buildRows(tasks, child.id, collapsedIds)
buildRowsOfChildren(ts, directChildren, collapsedIds) ==
    IF directChildren = <<>> THEN <<>>
    ELSE LET child == Head(directChildren)
             grandChildren == siblingsOf(ts, child.id)
             childChildren == IF child.id \in collapsedIds THEN <<>> ELSE grandChildren IN
         <<Row(child, childChildren)>>
             \o buildRows(ts, child.id, collapsedIds)
             \o buildRowsOfChildren(ts, Tail(directChildren), collapsedIds)

\* for (const task of siblings)
buildRowsOfSiblings(ts, siblings, collapsedIds) ==
    IF siblings = <<>> THEN <<>>
    ELSE LET task == Head(siblings)
             directChildren == siblingsOf(ts, task.id)
             children == IF task.id \in collapsedIds THEN <<>> ELSE directChildren IN
         <<Row(task, children)>>
             \o (IF task.id \notin collapsedIds
                 THEN buildRowsOfChildren(ts, directChildren, collapsedIds)
                 ELSE <<>>)
             \o buildRowsOfSiblings(ts, Tail(siblings), collapsedIds)

buildRows(ts, parentId, collapsedIds) ==
    buildRowsOfSiblings(ts, siblingsOf(ts, parentId), collapsedIds)

\* GanttView / TimelineView: rows = buildRows(tasks, null, collapsedIds)
ViewState(ts, collapsedIds) ==
    [fn |-> "buildRows",
     val |-> [collapsedIds |-> collapsedIds, rows |-> buildRows(ts, NoId, collapsedIds)]]

\* the view is mounted on a fetched snapshot (a forest: parent_id is a
\* foreign key and every reparent is checked), nothing collapsed
InitRows ==
    /\ \E n \in 0..SnapTasks :
        \E p \in [1..n -> 0..n], d \in [1..n -> StartDates] :
            /\ tasks = [i \in 1..n |-> Task(i, p[i], <<>>, d[i], 1)]
            /\ ParentAcyclic(tasks)
    /\ nextId = 0
    /\ last = [op |-> "none", id |-> NoId, arg |-> NoId]
    /\ out = ViewState(tasks, {})

\* toggleCollapsed(row.parent.id): the button of a row whose task has
\* children
ToggleCollapsed ==
    /\ \E i \in 1..Len(out.val.rows) :
        LET id == out.val.rows[i].parent IN
        /\ hasChildren(tasks, id)
        /\ out' = ViewState(tasks, IF id \in out.val.collapsedIds
                                   THEN out.val.collapsedIds \ {id}
                                   ELSE out.val.collapsedIds \cup {id})
        /\ Issued("toggleCollapsed", id, NoId)
    /\ UNCHANGED <<tasks, nextId>>

NextRows == ToggleCollapsed

SpecRows == InitRows /\ [][NextRows]_vars

\* --------------------------------------------------------------- claims
\* C1: with every add-dependency gated by canAddDependency on the current
\* snapshot, and remove-dependency and delete-task interleaved, no task ever
\* depends on itself, directly or transitively.
C1_DependencyAcyclic == DepAcyclic(tasks)

\* a dependency chain of two edges exists and the last mutation added an edge
C1_Witness ==
    /\ last.op = "addDependency"
    /\ \E e \in DepEdgeSet(tasks) : \E f \in DepEdgeSet(tasks) : e[2] = f[1]

\* C2: with every reparent gated by the ancestry check on the current
\* snapshot, and creations and deletions interleaved, no task is ever its own
\* ancestor.
C2_ParentAcyclic == ParentAcyclic(tasks)

\* a parent chain of three levels exists and the last mutation was a reparent
C2_Witness ==
    /\ last.op = "reparent"
    /\ \E e \in ChildEdgeSet(tasks) : \E f \in ChildEdgeSet(tasks) : e[2] = f[1]

\* first place of x in the order, 0 when it is not there
Place(order, x) == IF includes(order, x) THEN indexOf(order, x) ELSE 0

\* C3: on a list with unique ids and an acyclic dependency relation,
\* getDependencyOrder puts every dependency that is in the list strictly
\* before the task that has it.
C3_DependenciesFirst ==
    (out.fn = "getDependencyOrder" /\ DepAcyclic(tasks)) =>
        \A e \in DepEdgeSet(tasks) :
            e[2] \in TaskIds(tasks) =>
                /\ Place(out.val, e[2]) > 0
                /\ Place(out.val, e[2]) < Place(out.val, e[1])

\* the diamond 1, 2 dep 1, 3 dep 1, 4 dep 2 and 3 was ordered
C3_Witness ==
    /\ out.fn = "getDependencyOrder"
    /\ tasks = DiamondSnapshot
    /\ out.val = <<1, 2, 3, 4>>

\* C4: for every list with unique ids, acyclic or cyclic, the output of
\* getDependencyOrder is a permutation of the input ids.
C4_Permutation ==
    out.fn = "getDependencyOrder" =>
        /\ Len(out.val) = Len(tasks)
        /\ \A id \in TaskIds(tasks) :
            Cardinality({i \in 1..Len(out.val) : out.val[i] = id}) = 1

\* a list of three tasks with a dependency cycle was ordered
C4_Witness ==
    /\ out.fn = "getDependencyOrder"
    /\ Len(tasks) = 3
    /\ ~DepAcyclic(tasks)
    /\ Len(out.val) = 3

\* C5: on an acyclic snapshot the drawer accepts t as a new dependency of x
\* exactly when t # x, t is not yet a dependency of x and t does not depend
\* on x transitively, which is exactly when the edge is new and the relation
\* with the edge added is still acyclic.
C5_CanAddDependency ==
    (out.fn = "canAddDependency" /\ DepAcyclic(tasks)) =>
        \A x \in TaskIds(tasks), t \in TaskIds(tasks) :
            /\ out.val[x, t] \in {T, F}
            /\ (out.val[x, t] = T) <=>
                    (/\ t # x
                     /\ <<x, t>> \notin DepEdgeSet(tasks)
                     /\ x \notin Reach(DepEdgeSet(tasks), t))
            /\ (out.val[x, t] = T) <=>
                    (/\ <<x, t>> \notin DepEdgeSet(tasks)
                     /\ Acyclic(DepEdgeSet(tasks) \cup {<<x, t>>}))

\* on an acyclic snapshot one candidate was accepted and another one, that
\* is two hops away, was refused
C5_Witness ==
    /\ out.fn = "canAddDependency"
    /\ DepAcyclic(tasks)
    /\ \E x \in TaskIds(tasks), t \in TaskIds(tasks) : out.val[x, t] = T
    /\ \E x \in TaskIds(tasks), t \in TaskIds(tasks) :
        /\ out.val[x, t] = F
        /\ t # x
        /\ <<x, t>> \notin DepEdgeSet(tasks)
        /\ <<t, x>> \notin DepEdgeSet(tasks)

\* C6: no stored dependency id is dangling: every id in every dependency
\* list is the id of a task that exists.
C6_NoDanglingDependency ==
    \A e \in DepEdgeSet(tasks) : e[2] \in TaskIds(tasks)

\* C7: after a successful deleteTask(id), id and every task that had id as
\* an ancestor are gone, every other task is still there, and id is in no
\* dependency list of a remaining task.
C7_DeleteCascades ==
    [][(last'.op = "deleteTask" /\ hasTask(tasks, last'.id)) =>
        /\ TaskIds(tasks') =
              TaskIds(tasks) \ ({last'.id} \cup Reach(ChildEdgeSet(tasks), last'.id))
        /\ \A i \in 1..Len(tasks') : ~includes(tasks'[i].dependencyIds, last'.id)]_vars

\* a delete took a task away and left a task that still has dependencies
C7_Witness ==
    /\ last.op = "deleteTask"
    /\ last.id \notin TaskIds(tasks)
    /\ \E i \in 1..Len(tasks) : Len(tasks[i].dependencyIds) > 0

\* C8: every add-dependency request the client sends was accepted by the
\* canAddDependency check on the snapshot it holds, and every reparent
\* request by the isDescendant check.
C8_MutationsGated ==
    [][/\ last'.op = "addDependency" => canAddAsDependency(tasks, last'.id, last'.arg)
       /\ last'.op = "reparent" =>
            /\ last'.id # last'.arg
            /\ last'.arg = NoId \/ isDescendant(tasks, last'.id, last'.arg) = F]_vars

\* the parent chain 1 > 2 > 3
ParentChain(ts) ==
    /\ Len(ts) = 3
    /\ ts[1].parentId = NoId /\ ts[2].parentId = 1 /\ ts[3].parentId = 2

\* C9: on a forest, isDescendant(a, n) is true exactly when n is reached
\* from a by one or more parent-to-child steps; on the chain 1 > 2 > 3,
\* isDescendant(1, 3) is true and isDescendant(3, 1) is false.
C9_IsDescendant ==
    (out.fn \in {"isDescendant", "isDescendantTree"} /\ ParentAcyclic(tasks)) =>
        /\ \A a \in QueryIds(tasks), n \in QueryIds(tasks) :
            /\ out.val[a, n] \in {T, F}
            /\ (out.val[a, n] = T) <=> (n \in Reach(ChildEdgeSet(tasks), a))
        /\ ParentChain(tasks) => (out.val[1, 3] = T /\ out.val[3, 1] = F)

\* the chain 1 > 2 > 3 was queried by the task list
C9_Witness ==
    /\ out.fn = "isDescendant"
    /\ ParentChain(tasks)
    /\ out.val[1, 3] = T

\* the dependency chain: 3 depends on 2, 2 depends on 1
DepChain(ts) ==
    /\ Len(ts) = 3
    /\ ts[1].dependencyIds = <<>>
    /\ ts[2].dependencyIds = <<1>>
    /\ ts[3].dependencyIds = <<2>>

\* C10 as stated: for tasks a and b, dependsOnTransitive(a, b) is true
\* exactly when b is reached from a by zero or more dependency hops.
C10_ZeroOrMoreHops ==
    out.fn = "dependsOnTransitive" =>
        \A a \in TaskIds(tasks), b \in TaskIds(tasks) :
            (out.val[a, b] = T) <=> (b = a \/ b \in Reach(DepEdgeSet(tasks), a))

\* C10 amended: a call of dependsOnTransitive(a, b) that returns, returns
\* true exactly when b is reached from a by one or more dependency hops; it
\* returns on every snapshot whose dependency relation is acyclic; on the
\* chain 3 -> 2 -> 1, dependsOnTransitive(3, 1) is true and
\* canAddDependency(1, 3) is false.
C10_OneOrMoreHops ==
    /\ out.fn = "dependsOnTransitive" =>
        /\ \A a \in QueryIds(tasks), b \in QueryIds(tasks) :
            /\ out.val[a, b] = T => b \in Reach(DepEdgeSet(tasks), a)
            /\ out.val[a, b] = F => b \notin Reach(DepEdgeSet(tasks), a)
            /\ DepAcyclic(tasks) => out.val[a, b] \in {T, F}
        /\ DepChain(tasks) => out.val[3, 1] = T
    /\ (out.fn = "canAddDependency" /\ DepChain(tasks)) => out.val[1, 3] = F

\* the chain 3 -> 2 -> 1 was queried
C10_Witness ==
    /\ out.fn = "dependsOnTransitive"
    /\ DepChain(tasks)
    /\ out.val[3, 1] = T
    /\ out.val[1, 1] = F

\* C11: isDescendant(ancestorId, nodeId) returns a boolean for every snapshot
\* and every pair of ids, a snapshot with a parent cycle included.
C11_IsDescendantTerminates ==
    out.fn = "isDescendant" =>
        \A a \in QueryIds(tasks), n \in QueryIds(tasks) : out.val[a, n] \in {T, F}

\* C12: dependsOnTransitive(taskId, targetId) returns a boolean for every
\* snapshot and every pair of ids, a snapshot with a dependency cycle
\* included.
C12_DependsOnTransitiveTerminates ==
    out.fn = "dependsOnTransitive" =>
        \A a \in QueryIds(tasks), b \in QueryIds(tasks) : out.val[a, b] \in {T, F}

\* C13: for every task t of a snapshot, isDescendant(t, t) is false.
C13_IsDescendantIrreflexive ==
    out.fn = "isDescendant" => \A t \in TaskIds(tasks) : out.val[t, t] = F

\* C14: on an acyclic dependency graph, when canAddDependency(a, b) is true
\* and the edge a -> b is added, canAddDependency(b, a) on the resulting
\* snapshot is false, in the drawer and in the drop modal of the list.
C14_NoTwoCycle ==
    (out.fn = "addThenCanAdd" /\ DepAcyclic(tasks)) =>
        \A a \in TaskIds(tasks), b \in TaskIds(tasks) :
            out.val[a, b].offered =>
                /\ out.val[a, b].drawer = F
                /\ ~out.val[a, b].list

\* an edge was offered and added on an acyclic graph that already has an
\* edge, and the reverse edge is then refused
C14_Witness ==
    /\ out.fn = "addThenCanAdd"
    /\ DepAcyclic(tasks)
    /\ DepEdgeSet(tasks) # {}
    /\ \E a \in TaskIds(tasks), b \in TaskIds(tasks) :
        out.val[a, b].offered /\ out.val[a, b].drawer = F

\* the tasks that have no row naming them as parent
Leaves(ts) == {t \in TaskIds(ts) : \A i \in 1..Len(ts) : ts[i].parentId # t}

\* C15: for every task of the snapshot without children,
\* getEffectiveTaskBounds returns the task's own stored start date and
\* duration, a null start date included.
C15_LeafIdentity ==
    out.fn = "getEffectiveTaskBounds" =>
        \A t \in Leaves(tasks) :
            out.val[t] = Bounds(findTask(tasks, t).startDate, findTask(tasks, t).duration)

\* the bounds of a scheduled and of an unscheduled leaf were asked for, the
\* unscheduled one with a duration above 1
C15_Witness ==
    /\ out.fn = "getEffectiveTaskBounds"
    /\ \E t \in Leaves(tasks), v \in Leaves(tasks) :
        /\ findTask(tasks, t).startDate = NoDate /\ findTask(tasks, t).duration > 1
        /\ out.val[t] = Bounds(NoDate, findTask(tasks, t).duration)
        /\ findTask(tasks, v).startDate # NoDate
        /\ out.val[v].startDate = findTask(tasks, v).startDate

\* the tasks below p
Descendants(ts, p) == Reach(ChildEdgeSet(ts), p) \cap TaskIds(ts)

SetMin(S) == CHOOSE x \in S : \A y \in S : x <= y
SetMax(S) == CHOOSE x \in S : \A y \in S : x >= y

\* C16: in a forest, for a parent p with at least one scheduled descendant,
\* the start date returned for p is the earliest effective start among its
\* descendants, and start date + duration is the latest effective end among
\* them; the stored start date and duration of p play no part.
C16_ParentSpansDescendants ==
    (out.fn = "getEffectiveTaskBounds" /\ ParentAcyclic(tasks)) =>
        \A p \in TaskIds(tasks) :
            LET D == Descendants(tasks, p)
                E == {d \in D : out.val[d].startDate # NoDate} IN
            (\E d \in D : findTask(tasks, d).startDate # NoDate) =>
                /\ out.val[p].returns
                /\ E # {}
                /\ out.val[p].startDate = SetMin({out.val[d].startDate : d \in E})
                /\ out.val[p].startDate + out.val[p].duration =
                       SetMax({out.val[d].startDate + out.val[d].duration : d \in E})

\* a parent with a grandchild and two scheduled descendants of different
\* start and end, and a stored start date of its own that is not returned
C16_Witness ==
    /\ out.fn = "getEffectiveTaskBounds"
    /\ ParentAcyclic(tasks)
    /\ \E p \in TaskIds(tasks) :
        /\ \E c \in TaskIds(tasks), g \in TaskIds(tasks) :
            /\ findTask(tasks, c).parentId = p
            /\ findTask(tasks, g).parentId = c
            /\ findTask(tasks, g).startDate # NoDate
        /\ findTask(tasks, p).startDate # NoDate
        /\ out.val[p].startDate # findTask(tasks, p).startDate
        /\ out.val[p].duration # findTask(tasks, p).duration

\* C17: every stored task has duration >= 1 after every create and update;
\* a create or update that carries a duration below 1 leaves the stored
\* tasks as they were; every duration the client computes (unit conversion
\* of the New Task modal, resize of a bar) is at least 1.
C17_DurationAtLeastOne ==
    [][/\ \A i \in 1..Len(tasks') : tasks'[i].duration >= 1
       /\ (last'.op \in {"createTask", "updateDuration"} /\ last'.arg < 1) => tasks' = tasks
       /\ last'.op \in {"newTask", "resize"} => last'.arg >= 1]_vars

\* a request with a duration below 1 was just refused while a task with a
\* longer duration is stored
C17_Witness ==
    /\ last.op = "updateDuration"
    /\ last.arg < 1
    /\ \E i \in 1..Len(tasks) : tasks[i].duration > 1

\* C18: for every task t with a start date and every dependency d of t with
\* a start date, t starts no earlier than d ends (d.startDate + d.duration).
C18_StartsAfterDependencies ==
    \A t \in TaskIds(tasks) :
        \A k \in 1..Len(findTask(tasks, t).dependencyIds) :
            LET d == findTask(tasks, t).dependencyIds[k] IN
            (hasTask(tasks, d) /\ findTask(tasks, t).startDate # NoDate
                               /\ findTask(tasks, d).startDate # NoDate) =>
                findTask(tasks, t).startDate >=
                    findTask(tasks, d).startDate + findTask(tasks, d).duration

\* dependency edges between tasks of the list
LocalDepEdgeSet(ts) == {e \in DepEdgeSet(ts) : e[2] \in TaskIds(ts)}

\* the tasks that never become ready: they lie on a dependency cycle or
\* depend, directly or transitively, on a task that does
Stuck(ts) ==
    {t \in TaskIds(ts) :
        \E c \in {t} \cup Reach(LocalDepEdgeSet(ts), t) : c \in Reach(LocalDepEdgeSet(ts), c)}

\* the ids of the list, in list order, that are in S
InListOrder(ts, S) == SelectSeq(idsOf(ts), LAMBDA x : x \in S)

\* C19: when tasks remain and none is ready (a dependency cycle, a task
\* that lists itself included), getDependencyOrder ends with all remaining
\* ids in the order of the input list; two calls on the same list return
\* the same order.
C19_FallbackInListOrder ==
    /\ out.fn = "getDependencyOrder" =>
        LET S == Stuck(tasks)
            k == Len(out.val) - Cardinality(S) IN
        /\ k >= 0
        /\ \A i \in 1..k : out.val[i] \notin S
        /\ SubSeq(out.val, k + 1, Len(out.val)) = InListOrder(tasks, S)
    /\ out.fn = "getDependencyOrderTwice" => out.val[1] = out.val[2]

\* a list with a 2-cycle whose later task has the earlier start key, and a
\* task outside the cycle, was ordered
C19_Witness ==
    /\ out.fn = "getDependencyOrder"
    /\ Len(tasks) = 3
    /\ Stuck(tasks) = {1, 2}
    /\ <<1, 2>> \in DepEdgeSet(tasks) /\ <<2, 1>> \in DepEdgeSet(tasks)
    /\ tasks[1].startDate # NoDate /\ tasks[2].startDate = NoDate
    /\ out.val = <<3, 1, 2>>

\* the round in which a task that is not stuck becomes ready
RECURSIVE RoundOf(_, _)
RoundOf(ts, t) ==
    LET D == {e[2] : e \in {x \in LocalDepEdgeSet(ts) : x[1] = t}} IN
    IF D = {} THEN 1 ELSE 1 + SetMax({RoundOf(ts, d) : d \in D})

\* a starts before b: no start date comes first
EarlierStart(a, b) ==
    \/ a.startDate = NoDate /\ b.startDate # NoDate
    \/ a.startDate # NoDate /\ b.startDate # NoDate /\ a.startDate < b.startDate

\* x is emitted before y: earlier round; in a round earlier start; with
\* equal starts earlier in the list
EmittedBefore(ts, x, y) ==
    \/ RoundOf(ts, x) < RoundOf(ts, y)
    \/ /\ RoundOf(ts, x) = RoundOf(ts, y)
       /\ \/ EarlierStart(findTask(ts, x), findTask(ts, y))
          \/ /\ findTask(ts, x).startDate = findTask(ts, y).startDate
             /\ Place(idsOf(ts), x) < Place(idsOf(ts), y)

FirstRound(ts) ==
    {t \in TaskIds(ts) :
        \A k \in 1..Len(findTask(ts, t).dependencyIds) :
            findTask(ts, t).dependencyIds[k] \notin TaskIds(ts)}

\* C21: a dependency id that no task of the list has counts as satisfied:
\* the tasks all of whose dependency ids are absent from the list are
\* emitted in the first round, in front of every other task, and an id of
\* no task is never in the output.
C21_DanglingSatisfied ==
    out.fn = "getDependencyOrder" =>
        /\ \A i \in 1..Len(out.val) : out.val[i] \in TaskIds(tasks)
        /\ \A i \in 1..Len(out.val) :
            (i <= Cardinality(FirstRound(tasks))) <=> (out.val[i] \in FirstRound(tasks))

\* task 1 depends only on an id of no task, task 3 depends on task 2
C21_Witness ==
    /\ out.fn = "getDependencyOrder"
    /\ Len(tasks) = 3
    /\ DepEdgeSet(tasks) = {<<1, 4>>, <<3, 2>>}
    /\ out.val[3] = 3

\* C22 as stated: a parent none of whose children has a stored start date
\* gets its own stored start date and duration (here on forests only).
C22_ChildrenUnscheduled ==
    (out.fn = "getEffectiveTaskBounds" /\ ParentAcyclic(tasks)) =>
        \A p \in TaskIds(tasks) \ Leaves(tasks) :
            (\A i \in 1..Len(tasks) :
                tasks[i].parentId = p => tasks[i].startDate = NoDate) =>
                out.val[p] = Bounds(findTask(tasks, p).startDate, findTask(tasks, p).duration)

\* C22 amended: a call of getEffectiveTaskBounds for a parent none of whose
\* descendants has a stored start date, when it returns, returns the
\* parent's own stored start date and duration; it returns on every forest.
C22_DescendantsUnscheduled ==
    out.fn = "getEffectiveTaskBounds" =>
        \A p \in TaskIds(tasks) \ Leaves(tasks) :
            (\A d \in Descendants(tasks, p) : findTask(tasks, d).startDate = NoDate) =>
                /\ ParentAcyclic(tasks) => out.val[p].returns
                /\ out.val[p].returns =>
                    out.val[p] = Bounds(findTask(tasks, p).startDate, findTask(tasks, p).duration)

\* a scheduled parent with an unscheduled child and an unscheduled
\* grandchild was asked for and got its own fields
C22_Witness ==
    /\ out.fn = "getEffectiveTaskBounds"
    /\ ParentChain(tasks)
    /\ tasks[1].startDate # NoDate /\ tasks[1].duration > 1
    /\ tasks[2].startDate = NoDate /\ tasks[3].startDate = NoDate
    /\ out.val[1] = Bounds(tasks[1].startDate, tasks[1].duration)

\* C23: getEffectiveTaskBounds returns a pair for every snapshot and every
\* queried id: ids of no task, dangling parent ids and parent cycles
\* included.
C23_EffectiveBoundsTotal ==
    out.fn = "getEffectiveTaskBounds" =>
        \A t \in QueryIds(tasks) : out.val[t].returns

\* C25: for every task with duration >= 1 and every status s, the task
\* with the updates of getUpdatesForStatus(task, s) applied has the status
\* s on the same day.
C25_StatusRoundTrip ==
    out.fn = "getTaskStatus" => out.val.status = last.arg

\* the ids in the dependencyIds of t
DepsOf(ts, t) == {e[2] : e \in {x \in DepEdgeSet(ts) : x[1] = t}}

\* C26: getLevels gives level 0 exactly to the tasks without dependencies;
\* on an acyclic snapshot every other task gets one more than the highest
\* level among its dependencies, so each dependency is strictly lower.
C26_Levels ==
    out.fn = "getLevels" =>
        \A t \in TaskIds(tasks) :
            /\ t \in DOMAIN out.val
            /\ (out.val[t] = 0) <=> (DepsOf(tasks, t) = {})
            /\ (DepAcyclic(tasks) /\ DepsOf(tasks, t) # {}) =>
                /\ DepsOf(tasks, t) \subseteq DOMAIN out.val
                /\ out.val[t] = 1 + SetMax({out.val[d] : d \in DepsOf(tasks, t)})
                /\ \A d \in DepsOf(tasks, t) : out.val[d] < out.val[t]

\* the levels of the diamond 1, 2 dep 1, 3 dep 1, 4 dep 2 and 3
C26_Witness ==
    /\ out.fn = "getLevels"
    /\ tasks = DiamondSnapshot
    /\ out.val[1] = 0 /\ out.val[2] = 1 /\ out.val[3] = 1 /\ out.val[4] = 2

\* C24: the server stores the edge of every add-dependency request a
\* client issues after canAddDependency accepted it on the snapshot that
\* client holds, whatever the table has become meanwhile: acyclicity is
\* not validated again, so two clients holding the same earlier snapshot
\* can commit A depends-on B and B depends-on A.
C24_AddCommittedUnvalidated ==
    [][(last'.op = "addDependency" /\ last' # last /\ hasTask(tasks, last'.id))
        => includes(findTask(tasks', last'.id).dependencyIds, last'.arg)]_vars

\* both edges of a two-cycle are persisted, the second one by a client
\* other than the one that added the first
C24_Witness ==
    /\ last.op = "addDependency"
    /\ hasTask(tasks, 1) /\ hasTask(tasks, 2)
    /\ includes(findTask(tasks, 1).dependencyIds, 2)
    /\ includes(findTask(tasks, 2).dependencyIds, 1)
    /\ ~DepAcyclic(tasks)

\* C27: whenever no request of the client is in flight, the list the
\* client holds contains only tasks of the open project, and is empty when
\* no project is open.
C27_ListOfOpenProject ==
    (out.fn = "app" /\ out.val.inFlight = <<>>) =>
        IF out.val.currentProject = NoProject
        THEN tasks = <<>>
        ELSE \A i \in 1..Len(tasks) :
                hasTask(out.val.table[out.val.currentProject], tasks[i].id)

\* the number of rows of the task t
RowCount(rows, t) == Cardinality({i \in 1..Len(rows) : rows[i].parent = t})

\* the proper ancestors of t
Ancestors(ts, t) == {a \in TaskIds(ts) : t \in Reach(ChildEdgeSet(ts), a)}

\* C28: in a forest, buildRows gives no row to a task with a collapsed
\* ancestor and exactly one row to every other task reachable from a root.
C28_RowsRespectCollapse ==
    (out.fn = "buildRows" /\ ParentAcyclic(tasks)) =>
        \A t \in TaskIds(tasks) :
            RowCount(out.val.rows, t) =
                IF Ancestors(tasks, t) \cap out.val.collapsedIds # {} THEN 0 ELSE 1

\* no dependency list holds an id twice or the id of its own task
NoDuplicateNoSelf(ts) ==
    \A i \in 1..Len(ts) :
        /\ ~includes(ts[i].dependencyIds, ts[i].id)
        /\ \A j, k \in 1..Len(ts[i].dependencyIds) :
            ts[i].dependencyIds[j] = ts[i].dependencyIds[k] => j = k

\* C29: under every interleaving of add-dependency and remove-dependency
\* requests no dependency list ever holds an id twice or its task's own
\* id, and the UPDATE of an add whose id is already listed, or is the
\* task's own id, leaves the table as it is.
C29_DependencyListsAreSets ==
    /\ []NoDuplicateNoSelf(tasks)
    /\ [][\A i \in 1..Len(out.val) :
            (/\ out' = Pending(answered(out.val, i))
             /\ hasTask(tasks, out.val[i].id)
             /\ \/ out.val[i].id = out.val[i].dependsOnTaskId
                \/ includes(findTask(tasks, out.val[i].id).dependencyIds,
                            out.val[i].dependsOnTaskId))
            => tasks' = tasks]_vars

\* the UPDATE of an add found the id already listed (a second request for
\* the same edge was served between its read and its UPDATE)
C29_Witness ==
    /\ last.op = "postDependency: 404 after addDependency"
    /\ hasTask(tasks, last.id)
    /\ includes(findTask(tasks, last.id).dependencyIds, last.arg)
    /\ NoDuplicateNoSelf(tasks)

\* C30: on a snapshot whose parent relation is a forest, isAncestor(a, d)
\* of the drawer and isDescendant(a, d) of the list (current and older
\* version) return the same boolean for every pair of ids.
C30_AncestryChecksAgree ==
    (out.fn = "ancestry" /\ ParentAcyclic(tasks)) =>
        \A a \in QueryIds(tasks), d \in QueryIds(tasks) :
            /\ out.val[a, d].isAncestor \in {T, F}
            /\ out.val[a, d].isDescendant = out.val[a, d].isAncestor
            /\ out.val[a, d].isDescendantTree = out.val[a, d].isAncestor

\* the chain 1 > 2 > 3: task 1 is found two levels above task 3 by both
\* checks, and task 3 is not above task 1
C30_Witness ==
    /\ out.fn = "ancestry"
    /\ Len(tasks) = 3
    /\ tasks[2].parentId = 1 /\ tasks[3].parentId = 2 /\ tasks[1].parentId = NoId
    /\ out.val[1, 3].isAncestor = T /\ out.val[1, 3].isDescendant = T
    /\ out.val[3, 1].isAncestor = F /\ out.val[3, 1].isDescendant = F

====
